---- MODULE Spec2Model ----
(***************************************************************************)
(* Tailor management application: the SQLite data layer behind the GUI     *)
(* handlers of main.py (customer numbering, customer and measurement       *)
(* records, JSON import and export, customer search, the orders screen,    *)
(* the admin account), the schema of database.py and clear_database.py.    *)
(*                                                                         *)
(* Text is modelled as a sequence of one-character strings, so that        *)
(* str.strip() and the f-string formatting of the naap number are computed *)
(* character by character.  Python's None is the empty sequence where a    *)
(* string is expected and 0 where an integer is expected.                  *)
(***************************************************************************)
EXTENDS Integers, Sequences, FiniteSets, TLC

\* ------------------------------------------------------------------ bounds

\* The allocator is not called successfully more often than this in one run.
MaxAlloc == 2
\* Most allocator calls one concurrent caller makes.
MaxCallsPerProc == 2

\* ------------------------------------------------------------- text helpers

\* The decimal digit of d in 0..9 (str() of an int, one digit).
DigitChar(d) ==
    CASE d = 0 -> "0" [] d = 1 -> "1" [] d = 2 -> "2" [] d = 3 -> "3"
      [] d = 4 -> "4" [] d = 5 -> "5" [] d = 6 -> "6" [] d = 7 -> "7"
      [] d = 8 -> "8" [] d = 9 -> "9"

RECURSIVE DecStr(_)
\* Decimal rendering of a natural number, most significant digit first.
DecStr(n) ==
    IF n < 10 THEN <<DigitChar(n)>>
    ELSE DecStr(n \div 10) \o <<DigitChar(n % 10)>>

\* The minimum field width of the format spec ":04d".
PadWidth == 4

RECURSIVE Zeros(_)
Zeros(k) == IF k <= 0 THEN <<>> ELSE <<"0">> \o Zeros(k - 1)

\* Pad04 with the number cut to its last four digits.
Pad04_truncating(n) ==
    LET s == DecStr(n % 10000)
    IN  Zeros(PadWidth - Len(s)) \o s

\* f"{n:04d}": zero-padded to at least PadWidth characters, never cut.
Pad04(n) ==
    LET s == DecStr(n)
    IN  IF Len(s) >= PadWidth THEN s ELSE Zeros(PadWidth - Len(s)) \o s

\* f"{current_year}-{next_number:04d}"
FormatNaap(year, n) == DecStr(year) \o <<"-">> \o Pad04(n)

RECURSIVE StripLeft(_)
StripLeft(s) ==
    IF s # <<>> /\ Head(s) = " " THEN StripLeft(Tail(s)) ELSE s

RECURSIVE StripRight(_)
StripRight(s) ==
    IF s # <<>> /\ s[Len(s)] = " " THEN StripRight(SubSeq(s, 1, Len(s) - 1))
    ELSE s

\* str.strip() without removing anything.
Strip_identity(s) == s

\* str.strip(): leading and trailing whitespace removed.
Strip(s) == StripRight(StripLeft(s))

\* ------------------------------------------------------------------- inputs

\* Values of datetime.now().year.
Years == {2025, 2026}

\* Texts typed into the name and mobile fields.
NameInputs == {<<" ">>, <<" ", "A">>}
MobileInputs == {<<>>, <<"7", " ">>}

\* QDate.currentDate().toString("yyyy-MM-dd"), one fixed day.
Today == <<"d">>

SetMax(S) == IF S = {} THEN 0 ELSE CHOOSE m \in S : \A x \in S : x <= m

\* ------------------------------------------------------------------- state

VARIABLES
    counters,      \* table counters: year -> last_number, one row per key
    customers,     \* table customers: a set of rows
    custSeq,       \* sqlite_sequence entry of customers (AUTOINCREMENT)
    measurements,  \* table measurements: a set of rows
    running,       \* the application process is alive
    lastOp,        \* the last handler run, its inputs and its outcome
    issued,        \* year -> the naap numbers returned in this run, in order
    nCalls,        \* year -> successful allocator calls since the table was empty
    pc,            \* concurrent caller -> position in get_next_naap_number
    cyear,         \* concurrent caller -> its current_year
    cresult,       \* concurrent caller -> the last_number it fetched (0: None)
    cnext,         \* concurrent caller -> its next_number
    ccalls,        \* concurrent caller -> calls it has started
    wlock,         \* the connection holding SQLite's write lock (0: nobody)
    returned,      \* every value a concurrent caller's call returned
    editing_measurement_id, \* MainWindow.editing_measurement_id (0: not set)
    orders,        \* table orders: a set of rows
    orders_table,  \* the ids shown by the orders_table widget, top row first
    users,         \* table users: a set of rows
    logged_in_user,\* MainWindow.logged_in_user
    exportFile,    \* the JSON file export_data wrote (None: no file yet)
    exported,      \* the customer and measurement rows at that export
    backups        \* the backups directory: whether it exists, and its files

dbvars == <<counters, customers, custSeq, measurements>>
concvars == <<pc, cyear, cresult, cnext, ccalls, wlock, returned>>
\* The window's own attributes.
winvars == <<editing_measurement_id, orders_table, logged_in_user>>
\* The export file and the tables the customer handlers never write.
filevars == <<orders, users, exportFile, exported, backups>>
vars == <<counters, customers, custSeq, measurements, running, lastOp, issued,
          nCalls, pc, cyear, cresult, cnext, ccalls, wlock, returned,
          editing_measurement_id, orders, orders_table, users, logged_in_user,
          exportFile, exported, backups>>

\* The concurrent callers, each with a connection of its own.
Procs == {1, 2}

\* The empty counters table.
NoCounters == [y \in {} |-> 0]

Op(op, result, arg, ret) ==
    [op |-> op, result |-> result, arg |-> arg, ret |-> ret]

NoArg == <<>>
None == <<>>

\* ------------------------------------------------------------------- users

\* hashlib.sha256(text.encode('utf-8')).hexdigest(): a digest that differs
\* from the text and from the digest of every other text.
Sha256Hex(text) == <<"#">> \o text

AdminName == <<"a", "d", "m", "i", "n">>
DefaultPassword == <<"p", "a", "s", "s", "w", "o", "r", "d">>

UserRow(id, username, password_hash) ==
    [id |-> id, username |-> username, password_hash |-> password_hash]

\* SELECT COUNT(*) FROM users, always finding the table empty.
UserCount_zero(rows) == 0

\* SELECT COUNT(*) FROM users.
UserCount(rows) == Cardinality(rows)

\* A SELECT that finds no row, whatever the table holds.
UsernameTaken_never(rows, username) == FALSE

\* The UNIQUE constraint on username rejects the row.
UsernameTaken(rows, username) == \E u \in rows : u.username = username

\* create_default_admin: the users table after the call.  A rejected INSERT
\* is rolled back and only printed.
create_default_admin(rows) ==
    IF UserCount(rows) = 0 /\ ~UsernameTaken(rows, AdminName)
    THEN rows \cup {UserRow(SetMax({u.id : u \in rows}) + 1, AdminName,
                             Sha256Hex(DefaultPassword))}
    ELSE rows

\* The export file before export_data wrote it.
NoFile == [written |-> FALSE, customers |-> <<>>, measurements |-> <<>>]
NoExport == [customers |-> {}, measurements |-> {}]

\* No backups directory yet: backup_database creates it on its first run.
NoBackups == [exists |-> FALSE, files |-> {}]

\* A window just opened by the default admin on a database without orders.
InitApp ==
    /\ editing_measurement_id = 0
    /\ orders = {}
    /\ orders_table = <<>>
    /\ users = create_default_admin({})
    /\ logged_in_user = AdminName
    /\ exportFile = NoFile
    /\ exported = NoExport
    /\ backups = NoBackups

InitConc ==
    /\ pc = [p \in Procs |-> "idle"]
    /\ cyear = [p \in Procs |-> 0]
    /\ cresult = [p \in Procs |-> 0]
    /\ cnext = [p \in Procs |-> 0]
    /\ ccalls = [p \in Procs |-> 0]
    /\ wlock = 0
    /\ returned = <<>>

\* The database right after init_db created the empty tables.
Init ==
    /\ counters = NoCounters
    /\ customers = {}
    /\ custSeq = 0
    /\ measurements = {}
    /\ running = TRUE
    /\ lastOp = Op("init_db", "ok", NoArg, None)
    /\ issued = [y \in Years |-> <<>>]
    /\ nCalls = [y \in Years |-> 0]
    /\ InitConc
    /\ InitApp

\* ---------------------------------------------------------------- allocator

\* next_number taken from the customer rows of the year instead of the counter.
NextNumber_from_rows(ctr, year) ==
    Cardinality({c \in customers :
                    SubSeq(c.naap_number, 1, 4) = DecStr(year)}) + 1

\* next_number of get_next_naap_number: 1 without a counter row, else
\* last_number + 1.
NextNumber(ctr, year) ==
    IF year \in DOMAIN ctr THEN ctr[year] + 1 ELSE 1

\* The counters table after the UPDATE or the INSERT of the allocator.
CountersAfter(ctr, year, n) ==
    [z \in DOMAIN ctr \cup {year} |-> IF z = year THEN n ELSE ctr[z]]

\* The bound of the run on the number of allocations.
CanAllocate == Len(issued[2025]) + Len(issued[2026]) < MaxAlloc

\* The ghost history after a call for year returned naap.
IssuedAfter(year, naap) == [issued EXCEPT ![year] = Append(@, naap)]
CallsAfter(year) == [nCalls EXCEPT ![year] = @ + 1]

\* ------------------------------------------------------------ save_customer

\* The id an AUTOINCREMENT insert gets: above every id ever used.
NextCustomerId ==
    SetMax({custSeq} \cup {c.id : c \in customers}) + 1

CustomerRow(id, naap, name, mobile, address, date) ==
    [id |-> id, naap_number |-> naap, full_name |-> name,
     mobile_number |-> mobile, address |-> address, date_of_entry |-> date]

\* A customers table without the UNIQUE constraint on naap_number.
NaapTaken_unconstrained(rows, naap) == FALSE

\* The UNIQUE constraint on naap_number rejects the row.
NaapTaken(rows, naap) == \E c \in rows : c.naap_number = naap

\* The PRIMARY KEY constraint on id rejects the row.
IdTaken(rows, id) == \E c \in rows : c.id = id

\* MainWindow.save_customer: the "Save Customer" button.
save_customer(nameIn, mobileIn, year, allocOk, insertOk) ==
    LET name == Strip(nameIn)
        mobile == Strip(mobileIn)
        n == NextNumber(counters, year)
        naap == FormatNaap(year, n)
        arg == <<nameIn, mobileIn>>
    IN  /\ running
        /\ \/ \* required fields missing: warning, return
              /\ name = <<>> \/ mobile = <<>>
              /\ lastOp' = Op("save_customer", "missing", arg, None)
              /\ UNCHANGED <<dbvars, issued, nCalls>>
           \/ \* get_next_naap_number raised sqlite3.Error before its commit
              /\ name # <<>> /\ mobile # <<>>
              /\ ~allocOk
              /\ lastOp' = Op("save_customer", "alloc_error", arg, None)
              /\ UNCHANGED <<dbvars, issued, nCalls>>
           \/ \* the allocator committed; the INSERT raised sqlite3.Error
              /\ name # <<>> /\ mobile # <<>>
              /\ allocOk /\ CanAllocate
              /\ ~insertOk
              /\ counters' = CountersAfter(counters, year, n)
              /\ issued' = IssuedAfter(year, naap)
              /\ nCalls' = CallsAfter(year)
              /\ lastOp' = Op("save_customer", "db_error", arg, naap)
              /\ UNCHANGED <<customers, custSeq, measurements>>
           \/ \* the allocator committed; the INSERT hit UNIQUE(naap_number)
              /\ name # <<>> /\ mobile # <<>>
              /\ allocOk /\ CanAllocate
              /\ insertOk
              /\ NaapTaken(customers, naap)
              /\ counters' = CountersAfter(counters, year, n)
              /\ issued' = IssuedAfter(year, naap)
              /\ nCalls' = CallsAfter(year)
              /\ lastOp' = Op("save_customer", "integrity_error", arg, naap)
              /\ UNCHANGED <<customers, custSeq, measurements>>
           \/ \* the allocator committed; the row is inserted and committed
              /\ name # <<>> /\ mobile # <<>>
              /\ allocOk /\ CanAllocate
              /\ insertOk
              /\ ~NaapTaken(customers, naap)
              /\ counters' = CountersAfter(counters, year, n)
              /\ issued' = IssuedAfter(year, naap)
              /\ nCalls' = CallsAfter(year)
              /\ customers' = customers \cup
                     {CustomerRow(NextCustomerId, naap, name, mobile, <<>>, Today)}
              /\ custSeq' = NextCustomerId
              /\ lastOp' = Op("save_customer", "saved", arg, naap)
              /\ UNCHANGED measurements
        /\ UNCHANGED running
        /\ UNCHANGED <<concvars, winvars, filevars>>

SaveCustomerStep ==
    \E nameIn \in NameInputs, mobileIn \in MobileInputs, year \in Years,
       allocOk \in BOOLEAN, insertOk \in BOOLEAN :
        save_customer(nameIn, mobileIn, year, allocOk, insertOk)

\* ---------------------------------------------------------- save_measurement

MeasurementRow(id, customer_id, urgent, expected) ==
    [id |-> id, customer_id |-> customer_id, dress_type |-> "Shalwar Kameez",
     urgent_delivery |-> urgent, expected_delivery_date |-> expected,
     date_created |-> Today]

\* What the customer combo box and the urgent checkbox of the form can hold.
FormCustomerIds == {1}

\* MainWindow.save_measurement: the "Save Measurement" button.  The body reads
\* urgent_delivery (then dress_type, customer_id, ...) which no statement of
\* the function or of the module binds: NameError at its first statement,
\* outside the try block, so sys.excepthook logs it and exits the process.
save_measurement(customer_id, urgent) ==
    /\ running
    /\ lastOp' = Op("save_measurement", "NameError", <<customer_id, urgent>>, None)
    /\ running' = FALSE
    /\ UNCHANGED <<dbvars, issued, nCalls>>
    /\ UNCHANGED <<concvars, winvars, filevars>>

SaveMeasurementStep ==
    \E customer_id \in FormCustomerIds, urgent \in BOOLEAN :
        save_measurement(customer_id, urgent)

\* Texts typed into the username and password fields.
BossName == <<"b", "o", "s", "s">>
UsernameInputs == {<<" ">>, AdminName, BossName}
PasswordInputs == {<<"a", "b", "c">>, DefaultPassword,
                   <<"s", "e", "c", "r", "e", "t">>}

\* The program is started: init_db finds the tables in place and seeds the
\* users table if it is empty, LoginDialog.handle_login accepts the
\* credentials, and a new MainWindow opens for that user.
main(username, password) ==
    LET rows == create_default_admin(users)
        entered == Strip(username)
    IN  /\ ~running
        /\ entered # <<>> /\ password # <<>>
        /\ \E u \in rows : /\ u.username = entered
                            /\ u.password_hash = Sha256Hex(password)
        /\ users' = rows
        /\ running' = TRUE
        /\ logged_in_user' = entered
        /\ editing_measurement_id' = 0
        /\ orders_table' = <<>>
        /\ lastOp' = Op("init_db", "ok", NoArg, None)
        /\ UNCHANGED <<dbvars, issued, nCalls, orders, exportFile, exported, backups>>
        /\ UNCHANGED concvars

Start ==
    \E username \in UsernameInputs, password \in PasswordInputs :
        main(username, password)

\* -------------------------------------------------------------- import_data

\* Rows of the documents offered for import.
CustPool ==
    { CustomerRow(1, FormatNaap(2025, 1), <<"A">>, <<"7">>, <<>>, Today),
      CustomerRow(2, FormatNaap(2025, 2), <<"C">>, <<"7">>, <<>>, Today),
      CustomerRow(3, FormatNaap(2026, 1), <<"C">>, <<"8">>, <<>>, Today) }

MeasPool ==
    { MeasurementRow(1, 1, 0, None),
      MeasurementRow(2, 2, 1, Today) }

\* Sequences without repetition of at most two rows of a pool.
SeqsUpTo2(pool) ==
    {<<>>} \cup {<<a>> : a \in pool}
           \cup {s \in {<<a, b>> : a \in pool, b \in pool} : s[1] # s[2]}

Range(s) == {s[i] : i \in DOMAIN s}

\* The import documents: {"customers": [...], "measurements": [...]}, each as
\* an export of a consistent database would be (every measurement's customer
\* is in the document).
Docs ==
    { d \in [customers : SeqsUpTo2(CustPool), measurements : SeqsUpTo2(MeasPool)] :
        \A m \in Range(d.measurements) :
            \E c \in Range(d.customers) : c.id = m.customer_id }

\* The keys the customer loop reads with cust[...]; a missing one is a KeyError.
RequiredCustomerKeys ==
    {"id", "naap_number", "full_name", "mobile_number", "date_of_entry"}

\* One pass of the customer loop.  acc.ok is FALSE once a statement raised.
ImportCustomer(acc, cust, replace) ==
    LET exists == \E c \in acc.rows : c.mobile_number = cust.mobile_number
    IN  IF ~acc.ok THEN acc
        ELSE IF "mobile_number" \notin DOMAIN cust
             THEN [ok |-> FALSE, rows |-> acc.rows]
        ELSE IF exists /\ ~replace THEN acc
        ELSE IF ~(RequiredCustomerKeys \subseteq DOMAIN cust)
             THEN [ok |-> FALSE, rows |-> acc.rows]
        ELSE IF IdTaken(acc.rows, cust.id) \/ NaapTaken(acc.rows, cust.naap_number)
             THEN [ok |-> FALSE, rows |-> acc.rows]
        ELSE [ok |-> TRUE, rows |-> acc.rows \cup {cust}]

RECURSIVE ImportCustomers(_, _, _)
ImportCustomers(acc, custs, replace) ==
    IF custs = <<>> THEN acc
    ELSE ImportCustomers(ImportCustomer(acc, Head(custs), replace),
                         Tail(custs), replace)

\* One pass of the measurement loop.
ImportMeasurement(acc, meas, replace) ==
    LET exists == \E m \in acc.rows : m.id = meas.id
    IN  IF ~acc.ok THEN acc
        ELSE IF exists /\ ~replace THEN acc
        ELSE IF IdTaken(acc.rows, meas.id) THEN [ok |-> FALSE, rows |-> acc.rows]
        ELSE [ok |-> TRUE, rows |-> acc.rows \cup {meas}]

RECURSIVE ImportMeasurements(_, _, _)
ImportMeasurements(acc, meass, replace) ==
    IF meass = <<>> THEN acc
    ELSE ImportMeasurements(ImportMeasurement(acc, Head(meass), replace),
                            Tail(meass), replace)

\* A connection that commits each statement as it runs.
DroppedUncommitted_persisted(committed, pending) == pending

\* The except branch leaves the connection uncommitted and unclosed; it is
\* closed when the handler returns, and the open transaction (committed: the
\* table before it began, pending: the table as the statements left it) is
\* rolled back.
DroppedUncommitted(committed, pending) == committed

\* MainWindow.import_data: the file was read, the mode chosen, and every
\* statement runs in one implicit transaction that conn.commit() ends; when a
\* statement raises, the connection is dropped uncommitted.
import_data(doc, replace) ==
    LET cust0 == IF replace THEN {} ELSE customers
        meas0 == IF replace THEN {} ELSE measurements
        custs == ImportCustomers([ok |-> TRUE, rows |-> cust0],
                                 doc.customers, replace)
        meass == ImportMeasurements([ok |-> custs.ok, rows |-> meas0],
                                    doc.measurements, replace)
        mode == IF replace THEN "replace" ELSE "merge"
    IN  /\ running
        /\ \/ /\ custs.ok /\ meass.ok
              /\ customers' = custs.rows
              /\ measurements' = meass.rows
              /\ custSeq' = SetMax({custSeq} \cup {c.id : c \in custs.rows})
              /\ lastOp' = Op("import_data", "complete", mode, None)
           \/ /\ ~(custs.ok /\ meass.ok)
              /\ customers' = DroppedUncommitted(customers, custs.rows)
              /\ measurements' = DroppedUncommitted(measurements, meass.rows)
              /\ lastOp' = Op("import_data", "failed", mode, None)
              /\ UNCHANGED custSeq
        /\ UNCHANGED <<counters, running, issued, nCalls>>
        /\ UNCHANGED <<concvars, winvars, filevars>>

ImportStep ==
    \E doc \in Docs, replace \in BOOLEAN : import_data(doc, replace)

\* --------------------------------------------------------------- the program

Next ==
    \/ SaveCustomerStep
    \/ SaveMeasurementStep
    \/ ImportStep
    \/ Start

Spec == Init /\ [][Next]_vars

NextNoImport ==
    \/ SaveCustomerStep
    \/ SaveMeasurementStep
    \/ Start

\* Runs in which nothing is imported: customers come from save_customer alone.
SpecNoImport == Init /\ [][NextNoImport]_vars

\* ------------------------------------------- the allocator called in sequence

\* Counter values the table can hold when a run begins: after that many
\* allocations (0: no row yet).
Bases == {0, 9, 99, 999, 9998}

InitAlloc ==
    /\ \E b \in [Years -> Bases] :
          /\ counters = [y \in {z \in Years : b[z] > 0} |-> b[y]]
          /\ nCalls = b
    /\ customers = {}
    /\ custSeq = 0
    /\ measurements = {}
    /\ running = TRUE
    /\ lastOp = Op("init_db", "ok", NoArg, None)
    /\ issued = [y \in Years |-> <<>>]
    /\ InitConc
    /\ InitApp

\* MainWindow.get_next_naap_number, called on its own by one caller.
get_next_naap_number(year, ok) ==
    LET n == NextNumber(counters, year)
        naap == FormatNaap(year, n)
    IN  \/ \* sqlite3.Error before the commit: message box, return None
           /\ ~ok
           /\ lastOp' = Op("get_next_naap_number", "error", year, None)
           /\ UNCHANGED <<dbvars, running, issued, nCalls>>
           /\ UNCHANGED <<concvars, winvars, filevars>>
        \/ /\ ok /\ CanAllocate
           /\ counters' = CountersAfter(counters, year, n)
           /\ issued' = IssuedAfter(year, naap)
           /\ nCalls' = CallsAfter(year)
           /\ lastOp' = Op("get_next_naap_number", "ok", year, naap)
           /\ UNCHANGED <<customers, custSeq, measurements, running>>
           /\ UNCHANGED <<concvars, winvars, filevars>>

NextAlloc ==
    \E year \in Years, ok \in BOOLEAN : get_next_naap_number(year, ok)

SpecAlloc == InitAlloc /\ [][NextAlloc]_vars

\* ------------------------------------- the allocator called by several callers

\* Lines 1744-1753: current_year, connect, SELECT last_number, fetchone.  The
\* SELECT runs outside any transaction and sees the committed table.
c_select(p, year) ==
    /\ pc[p] = "idle"
    /\ ccalls[p] < MaxCallsPerProc
    /\ ccalls' = [ccalls EXCEPT ![p] = @ + 1]
    /\ cyear' = [cyear EXCEPT ![p] = year]
    /\ cresult' = [cresult EXCEPT ![p] =
                      IF year \in DOMAIN counters THEN counters[year] ELSE 0]
    /\ pc' = [pc EXCEPT ![p] = "fetched"]
    /\ UNCHANGED <<counters, cnext, wlock, returned>>

\* Lines 1755-1762: the UPDATE or INSERT opens the transaction and takes the
\* write lock; nothing is visible to the other connections yet.
c_write(p) ==
    /\ pc[p] = "fetched"
    /\ wlock = 0
    /\ \/ /\ cresult[p] # 0
          /\ cnext' = [cnext EXCEPT ![p] = cresult[p] + 1]
          /\ wlock' = p
          /\ pc' = [pc EXCEPT ![p] = "written"]
       \/ /\ cresult[p] = 0
          /\ cyear[p] \notin DOMAIN counters
          /\ cnext' = [cnext EXCEPT ![p] = 1]
          /\ wlock' = p
          /\ pc' = [pc EXCEPT ![p] = "written"]
       \/ \* INSERT of a year another caller inserted meanwhile: PRIMARY KEY
          \* violation, sqlite3.IntegrityError, return None
          /\ cresult[p] = 0
          /\ cyear[p] \in DOMAIN counters
          /\ pc' = [pc EXCEPT ![p] = "idle"]
          /\ UNCHANGED <<cnext, wlock>>
    /\ UNCHANGED <<cyear, cresult, ccalls, returned>>

\* The write lock is held by another connection for longer than the busy
\* timeout: sqlite3.OperationalError, return None.
c_busy(p) ==
    /\ pc[p] = "fetched"
    /\ wlock \notin {0, p}
    /\ pc' = [pc EXCEPT ![p] = "idle"]
    /\ UNCHANGED <<cyear, cresult, cnext, ccalls, wlock, returned>>

\* Lines 1764-1768: commit, close, return the formatted number.
c_commit(p) ==
    /\ pc[p] = "written"
    /\ wlock = p
    /\ counters' = CountersAfter(counters, cyear[p], cnext[p])
    /\ wlock' = 0
    /\ returned' = Append(returned, FormatNaap(cyear[p], cnext[p]))
    /\ pc' = [pc EXCEPT ![p] = "idle"]
    /\ UNCHANGED <<cyear, cresult, cnext, ccalls>>

\* What the allocator's callers leave alone.
restvars == <<customers, custSeq, measurements, running, lastOp, issued, nCalls,
              winvars, filevars>>

NextConc ==
    \/ \E p \in Procs, year \in Years : c_select(p, year) /\ UNCHANGED restvars
    \/ \E p \in Procs : c_write(p) /\ UNCHANGED <<counters, restvars>>
    \/ \E p \in Procs : c_busy(p) /\ UNCHANGED <<counters, restvars>>
    \/ \E p \in Procs : c_commit(p) /\ UNCHANGED restvars

SpecConc == Init /\ [][NextConc]_vars

\* ------------------------------------------------------ reading a naap number

DigitVal(ch) ==
    CASE ch = "0" -> 0 [] ch = "1" -> 1 [] ch = "2" -> 2 [] ch = "3" -> 3
      [] ch = "4" -> 4 [] ch = "5" -> 5 [] ch = "6" -> 6 [] ch = "7" -> 7
      [] ch = "8" -> 8 [] ch = "9" -> 9

RECURSIVE StrToNat(_)
StrToNat(s) ==
    IF s = <<>> THEN 0
    ELSE 10 * StrToNat(SubSeq(s, 1, Len(s) - 1)) + DigitVal(s[Len(s)])

YearText(year) ==
    CASE year = 2025 -> <<"2", "0", "2", "5">>
      [] year = 2026 -> <<"2", "0", "2", "6">>

\* The text after "YYYY-".
NaapSuffix(naap) == SubSeq(naap, 6, Len(naap))

\* naap is year, a dash and the number k, zero-padded to four digits or wider.
IsNaapOf(naap, year, k) ==
    /\ Len(naap) >= 9
    /\ SubSeq(naap, 1, 4) = YearText(year)
    /\ naap[5] = "-"
    /\ StrToNat(NaapSuffix(naap)) = k
    /\ Len(NaapSuffix(naap)) > 4 => NaapSuffix(naap)[1] # "0"

CounterOf(year) == IF year \in DOMAIN counters THEN counters[year] ELSE 0

CustomerIds == {c.id : c \in customers}

\* Every character is a blank (the text is empty after trimming).
Blank(s) == \A i \in DOMAIN s : s[i] = " "

Distinct(s) == \A i, j \in DOMAIN s : i # j => s[i] # s[j]

\* -------------------------------------------------------------------- claims

\* C1: whatever the interleaving of the callers' allocator calls, the values
\* returned are pairwise distinct.
C1_ReturnedDistinct == Distinct(returned)

\* C2: in a sequential run the k-th successful call for a year returns
\* year-k, k zero-padded to at least four digits and never cut, and the
\* year's counter row then holds k; the other years' rows are not touched.
C2_KthCallReturnsK ==
    /\ \A y \in Years : CounterOf(y) = nCalls[y]
    /\ (lastOp.op = "get_next_naap_number" /\ lastOp.result = "ok")
          => IsNaapOf(lastOp.ret, lastOp.arg, nCalls[lastOp.arg])

\* C2 witness: the 10000th call of 2025 returned 2025-10000.
C2_Witness ==
    /\ lastOp.op = "get_next_naap_number"
    /\ lastOp.ret = <<"2", "0", "2", "5", "-", "1", "0", "0", "0", "0">>
    /\ nCalls[2025] = 10000

\* C3: without imports, the numbers of the customers of a year are exactly
\* 1..last_number of that year.
C3_Gapless ==
    \A y \in Years :
        {StrToNat(NaapSuffix(c.naap_number)) :
            c \in {d \in customers : SubSeq(d.naap_number, 1, 4) = YearText(y)}}
        = 1 .. CounterOf(y)

\* C4: save_customer increments the counter and inserts the row, or does
\* neither.
C4_CounterAndRowTogether ==
    [][lastOp'.op = "save_customer"
          => ((counters' # counters) <=> (customers' # customers))]_vars

\* C5: a year's last_number never decreases (nor does its row vanish), and a
\* value the allocator returns was never returned before.
C5_NeverReused ==
    [][/\ \A y \in Years : CounterOf(y)' >= CounterOf(y)
       /\ \A y \in Years :
             issued'[y] # issued[y]
                => \A z \in Years : \A i \in DOMAIN issued[z] :
                       issued[z][i] # issued'[y][Len(issued'[y])]]_vars

\* C5 witness: customer 2025-0001 (id 1) was deleted by a Replace import and
\* the next save_customer was given 2025-0002 (id 2).
C5_Witness ==
    /\ lastOp.op = "save_customer" /\ lastOp.result = "saved"
    /\ lastOp.ret = <<"2", "0", "2", "5", "-", "0", "0", "0", "2">>
    /\ custSeq = 2
    /\ customers # {}
    /\ \A c \in customers : c.id = 2 /\ c.naap_number = lastOp.ret

\* C6: no two customer rows share a naap_number, and an INSERT that collides
\* is rejected without inserting a row.
C6_NaapUnique ==
    /\ \A c, d \in customers : c.naap_number = d.naap_number => c = d
    /\ lastOp.result = "integrity_error" =>
          Cardinality({c \in customers : c.naap_number = lastOp.ret}) = 1

\* C6 witness: a save_customer whose number collided with an existing row.
C6_Witness ==
    /\ lastOp.op = "save_customer"
    /\ lastOp.result = "integrity_error"

\* C7: save_customer with a blank name or mobile number is refused as missing
\* information and leaves the counters and every table as they were.
C7_BlankChangesNothing ==
    [][(lastOp'.op = "save_customer"
           /\ (Blank(lastOp'.arg[1]) \/ Blank(lastOp'.arg[2])))
          => /\ lastOp'.result = "missing"
             /\ UNCHANGED dbvars]_vars

\* C7 witness: a name of blanks only was refused after a customer was saved.
C7_Witness ==
    /\ lastOp.op = "save_customer" /\ lastOp.result = "missing"
    /\ lastOp.arg[1] = <<" ">> /\ lastOp.arg[2] # <<>>
    /\ customers # {}

\* C8: every measurement's customer_id is the id of a customer row.
C8_ReferentialIntegrity ==
    \A m \in measurements : m.customer_id \in CustomerIds

\* C9: save_measurement for a customer id that does not exist fails as not
\* found and inserts nothing.
C9_UnknownCustomerNotFound ==
    [][(lastOp'.op = "save_measurement" /\ lastOp'.arg[1] \notin CustomerIds)
          => /\ lastOp'.result = "NotFoundError"
             /\ measurements' = measurements]_vars

\* C10: a measurement saved as not urgent is stored without an expected
\* delivery date, one saved as urgent with the date of the form; so a row
\* written by save_measurement has the date exactly when it is urgent.
C10_ExpectedDateIffUrgent ==
    [][lastOp'.op = "save_measurement"
          => \E m \in measurements' \ measurements :
                /\ m.customer_id = lastOp'.arg[1]
                /\ (m.urgent_delivery = 1) <=> lastOp'.arg[2]
                /\ (m.expected_delivery_date # None) <=> lastOp'.arg[2]]_vars

\* ------------------------------------------------- editing a measurement

\* The import documents of at most one customer and one measurement.
SmallDocs ==
    {d \in Docs : Len(d.customers) <= 1 /\ Len(d.measurements) <= 1}

SmallImportStep ==
    \E doc \in SmallDocs, replace \in BOOLEAN : import_data(doc, replace)

\* The import documents of at most one customer and no measurement.
CustomerDocs == {d \in SmallDocs : d.measurements = <<>>}

CustomerImportStep ==
    \E doc \in CustomerDocs, replace \in BOOLEAN : import_data(doc, replace)

\* MainWindow.get_measurement_details: the measurement joined with its
\* customer, as a set of at most one row.
get_measurement_details(mid) ==
    {m \in measurements :
        m.id = mid /\ \E c \in customers : c.id = m.customer_id}

\* Ids a row of the history table can show (0: no row is selected).
HistoryIds == {0, 1, 2}

\* MainWindow.edit_selected_measurement: the "Edit" button of the history
\* screen.  show_add_measurement only switches the visible screen.
edit_selected_measurement(mid) ==
    /\ running
    /\ \/ /\ mid = 0
          /\ lastOp' = Op("edit_selected_measurement", "no_selection", mid, None)
          /\ UNCHANGED editing_measurement_id
       \/ /\ mid # 0
          /\ get_measurement_details(mid) = {}
          /\ lastOp' = Op("edit_selected_measurement", "error", mid, None)
          /\ UNCHANGED editing_measurement_id
       \/ /\ mid # 0
          /\ get_measurement_details(mid) # {}
          /\ editing_measurement_id' = mid
          /\ lastOp' = Op("edit_selected_measurement", "editing", mid, None)
    /\ UNCHANGED <<dbvars, running, issued, nCalls, orders_table, logged_in_user>>
    /\ UNCHANGED <<concvars, filevars>>

EditMeasurementStep ==
    \E mid \in HistoryIds : edit_selected_measurement(mid)

NextEdit ==
    \/ SmallImportStep
    \/ EditMeasurementStep
    \/ SaveMeasurementStep
    \/ Start

\* Runs of the history and measurement screens over imported rows.
SpecEdit == Init /\ [][NextEdit]_vars

\* C11: saving a measurement that was opened for editing replaces the fields
\* of the row with that id by the form's values: the row count is unchanged,
\* no second row is inserted and the row with the id holds the form's urgent
\* flag.
C11_EditSavesInPlace ==
    [][(lastOp'.op = "save_measurement" /\ editing_measurement_id # 0)
          => /\ lastOp'.result = "updated"
             /\ Cardinality(measurements') = Cardinality(measurements)
             /\ \E m \in measurements' :
                    /\ m.id = editing_measurement_id
                    /\ (m.urgent_delivery = 1) <=> lastOp'.arg[2]]_vars

\* ------------------------------------------------------------------ orders

\* The values the CHECK constraints of ORDERS_TABLE name.
OrderStatuses ==
    {"Pending", "In Progress", "Ready", "Completed", "Delivered", "Cancelled"}
PaymentStatuses == {"Unpaid", "Partially Paid", "Paid"}

\* An orders table without the CHECK constraint on order_status.
OrderStatusCheck_none(status) == TRUE

\* CHECK(order_status IN (...)) on a value that is not NULL.
OrderStatusCheck(status) == status \in OrderStatuses

\* CHECK(payment_status IN (...)) on a value that is not NULL.
PaymentStatusCheck(status) == status \in PaymentStatuses

OrderRow(id, customer_id, due_date, price, amount_paid, payment, status) ==
    [id |-> id, customer_id |-> customer_id, due_date |-> due_date,
     price |-> price, amount_paid |-> amount_paid,
     payment_status |-> payment, order_status |-> status]

\* Rows offered to the orders table of the database file.
OrderPool ==
    { OrderRow(1, 1, <<"1", "2">>, 100, 0, "Unpaid", "Pending"),
      OrderRow(2, 2, <<"1", "2">>, 100, 100, "Paid", "Ready"),
      OrderRow(3, 1, <<"1", "1">>, 100, 50, "Partially Paid", "Delivered"),
      OrderRow(4, 2, <<"1", "3">>, 100, 0, "Unpaid", "Shipped") }

\* The rows SQLite admitted under the constraints of ORDERS_TABLE.
OrdersAdmitted ==
    {o \in OrderPool : /\ OrderStatusCheck(o.order_status)
                       /\ PaymentStatusCheck(o.payment_status)}

\* The statuses the dialog of update_selected_order_status offers.
all_statuses == {"Pending", "In Progress", "Ready", "Delivered", "Cancelled"}

\* WHERE o.order_status NOT IN (...) that lets every order through.
IsActive_all(status) == TRUE

\* WHERE o.order_status NOT IN ('Delivered', 'Cancelled').
IsActive(status) == status \notin {"Delivered", "Cancelled"}

\* Comparison of two texts of digits of the same length, as SQLite's BINARY
\* collation compares dates written yyyy-MM-dd.
RECURSIVE TextLess(_, _)
TextLess(a, b) ==
    IF a = <<>> \/ b = <<>> THEN a = <<>> /\ b # <<>>
    ELSE IF Head(a) = Head(b) THEN TextLess(Tail(a), Tail(b))
    ELSE DigitVal(Head(a)) < DigitVal(Head(b))

\* ORDER BY o.due_date ASC, o.id DESC: a comes before b.
OrderBefore(a, b) ==
    \/ TextLess(a.due_date, b.due_date)
    \/ a.due_date = b.due_date /\ a.id > b.id

\* The ids of rows in the order of ORDER BY o.due_date ASC, o.id DESC.
OrderByDueDate(rows) ==
    LET ids == {o.id : o \in rows}
        row(id) == CHOOSE o \in rows : o.id = id
    IN  CHOOSE s \in [1 .. Cardinality(ids) -> ids] :
            /\ \A id \in ids : \E i \in DOMAIN s : s[i] = id
            /\ \A i, j \in DOMAIN s : i < j => OrderBefore(row(s[i]), row(s[j]))

\* The SELECT of load_orders: orders joined with their customers, the
\* Delivered and Cancelled ones left out.
SelectActiveOrders(orderRows, customerRows) ==
    OrderByDueDate({o \in orderRows :
                       /\ \E c \in customerRows : c.id = o.customer_id
                       /\ IsActive(o.order_status)})

\* The rows of orders_table after load_orders: cleared first, then filled
\* unless the query raised.
LoadedTable(orderRows, customerRows, ok) ==
    IF ok THEN SelectActiveOrders(orderRows, customerRows) ELSE <<>>

\* MainWindow.load_orders.
load_orders(ok) ==
    /\ running
    /\ orders_table' = LoadedTable(orders, customers, ok)
    /\ lastOp' = Op("load_orders", IF ok THEN "loaded" ELSE "db_error",
                    NoArg, orders_table')
    /\ UNCHANGED <<dbvars, running, issued, nCalls, filevars,
                   editing_measurement_id, logged_in_user>>
    /\ UNCHANGED concvars

LoadOrdersStep == \E ok \in BOOLEAN : load_orders(ok)

\* MainWindow.get_selected_order_id for currentRow() = row - 1 (0: no row).
get_selected_order_id(row) == IF row = 0 THEN 0 ELSE orders_table[row]

\* UPDATE orders SET order_status = ? WHERE id = ?.
UpdateStatus(rows, id, status) ==
    {IF o.id = id THEN [o EXCEPT !.order_status = status] ELSE o : o \in rows}

\* MainWindow.update_selected_order_status: the "Update Status" button.  ok
\* is the dialog's OK button, dbOk and loadOk whether the UPDATE and the
\* SELECT of the reload ran without sqlite3.Error.
update_selected_order_status(row, new_status, ok, dbOk, loadOk) ==
    LET order_id == get_selected_order_id(row)
        arg == <<order_id, new_status>>
        unasked == <<order_id, "">>
    IN  /\ running
        /\ row \in 0 .. Len(orders_table)
        /\ new_status \in all_statuses
        /\ \/ /\ order_id = 0
              /\ lastOp' = Op("update_selected_order_status", "no_selection",
                              unasked, None)
              /\ UNCHANGED <<orders, orders_table>>
           \/ /\ order_id # 0
              /\ ~ok
              /\ lastOp' = Op("update_selected_order_status", "cancelled",
                              unasked, None)
              /\ UNCHANGED <<orders, orders_table>>
           \/ /\ order_id # 0
              /\ ok
              /\ ~dbOk \/ ~OrderStatusCheck(new_status)
              /\ lastOp' = Op("update_selected_order_status", "db_error",
                              arg, None)
              /\ UNCHANGED <<orders, orders_table>>
           \/ /\ order_id # 0
              /\ ok
              /\ dbOk /\ OrderStatusCheck(new_status)
              /\ orders' = UpdateStatus(orders, order_id, new_status)
              /\ orders_table' = LoadedTable(orders', customers, loadOk)
              /\ lastOp' = Op("update_selected_order_status", "success",
                              arg, None)
        /\ UNCHANGED <<dbvars, running, issued, nCalls, users, exportFile,
                       exported, backups, editing_measurement_id, logged_in_user>>
        /\ UNCHANGED concvars

UpdateOrderStatusStep ==
    \E row \in 0 .. Len(orders_table) :
        \E new_status \in all_statuses,
           ok \in BOOLEAN, dbOk \in BOOLEAN, loadOk \in BOOLEAN :
            update_selected_order_status(row, new_status, ok, dbOk, loadOk)

\* Amounts typed into the price and amount paid fields.
AmountInputs == {0, 100}

\* MainWindow.save_order: the body is "pass".
save_order(price, amount_paid) ==
    /\ running
    /\ lastOp' = Op("save_order", "pass", <<price, amount_paid>>, None)
    /\ UNCHANGED <<dbvars, running, issued, nCalls, winvars, filevars>>
    /\ UNCHANGED concvars

SaveOrderStep ==
    \E price \in AmountInputs, amount_paid \in AmountInputs :
        save_order(price, amount_paid)

\* clear_database.py: the database file is removed and init_db creates an
\* empty one; a window that is open keeps what it shows.
clear_database(removed) ==
    /\ \/ /\ removed
          /\ counters' = NoCounters
          /\ customers' = {}
          /\ custSeq' = 0
          /\ measurements' = {}
          /\ orders' = {}
          /\ users' = create_default_admin({})
          /\ issued' = [y \in Years |-> <<>>]
          /\ nCalls' = [y \in Years |-> 0]
          /\ lastOp' = Op("clear_database", "reset", NoArg, None)
       \/ \* os.remove raised: exit(1) with the file as it was
          /\ ~removed
          /\ lastOp' = Op("clear_database", "error", NoArg, None)
          /\ UNCHANGED <<dbvars, orders, users, issued, nCalls>>
    /\ UNCHANGED <<running, exportFile, exported, backups, winvars>>
    /\ UNCHANGED concvars

ClearDatabaseStep == \E removed \in BOOLEAN : clear_database(removed)

\* A window opened on a database file that came with two customers and
\* their orders: no handler inserts an order, the rows are those SQLite
\* admitted when the file was written.
InitOrders ==
    /\ counters = NoCounters
    /\ customers = {c \in CustPool : c.id \in {1, 2}}
    /\ custSeq = 2
    /\ measurements = {}
    /\ running = TRUE
    /\ lastOp = Op("init_db", "ok", NoArg, None)
    /\ issued = [y \in Years |-> <<>>]
    /\ nCalls = [y \in Years |-> 0]
    /\ InitConc
    /\ editing_measurement_id = 0
    /\ orders = OrdersAdmitted
    /\ orders_table = <<>>
    /\ users = create_default_admin({})
    /\ logged_in_user = AdminName
    /\ exportFile = NoFile
    /\ exported = NoExport
    /\ backups = NoBackups

NextOrders ==
    \/ LoadOrdersStep
    \/ UpdateOrderStatusStep
    \/ SaveOrderStep
    \/ CustomerImportStep
    \/ ClearDatabaseStep

\* Runs of the orders screen.
SpecOrders == InitOrders /\ [][NextOrders]_vars

\* The payment status of an order with these amounts.
DerivedPayment(price, amount_paid) ==
    IF amount_paid = 0 THEN "Unpaid"
    ELSE IF amount_paid >= price THEN "Paid"
    ELSE "Partially Paid"

Terminal(status) == status \in {"Delivered", "Cancelled"}

OrderIds == {o.id : o \in orders}

\* C12: creating an order stores a new row with order_status Pending, the
\* amounts given and the payment_status derived from them (Unpaid when
\* nothing is paid, Paid when the price is covered, else Partially Paid).
C12_CreateOrderDerivesPayment ==
    [][lastOp'.op = "save_order"
          => \E o \in orders' \ orders :
                /\ o.order_status = "Pending"
                /\ o.price = lastOp'.arg[1]
                /\ o.amount_paid = lastOp'.arg[2]
                /\ o.payment_status =
                      DerivedPayment(lastOp'.arg[1], lastOp'.arg[2])]_vars

\* C13: for every order the table shows and each of the six statuses, the
\* status update can be run with that status and stores it, whatever the
\* order's status is.
C13_AnyStatusSettable ==
    \A row \in DOMAIN orders_table : \A status \in OrderStatuses :
        (running /\ orders_table[row] \in OrderIds)
           => ENABLED (/\ update_selected_order_status(row, status, TRUE, TRUE, TRUE)
                       /\ \E o \in orders' : /\ o.id = orders_table[row]
                                              /\ o.order_status = status)

C15_MissingOrderNotFound ==
    [][(/\ lastOp'.op = "update_selected_order_status"
        /\ lastOp'.arg[1] # 0
        /\ lastOp'.arg[1] \notin OrderIds)
          => lastOp'.result # "success"]_vars

C17_ListsExactlyActive ==
    [][(lastOp'.op = "load_orders" /\ lastOp'.result = "loaded")
          => orders_table' =
                OrderByDueDate({o \in orders : ~Terminal(o.order_status)})]_vars

\* --------------------------------------------------------- customer search

\* The rank of a letter of a customer name in SQLite's BINARY collation.
LetterRank(ch) == CASE ch = "A" -> 65 [] ch = "C" -> 67 [] OTHER -> 0

RECURSIVE NameLess(_, _)
NameLess(a, b) ==
    IF a = <<>> \/ b = <<>> THEN a = <<>> /\ b # <<>>
    ELSE IF Head(a) = Head(b) THEN NameLess(Tail(a), Tail(b))
    ELSE LetterRank(Head(a)) < LetterRank(Head(b))

\* The orders in which ORDER BY full_name ASC can return rows: rows of the
\* same name come in an order SQLite does not promise.
OrderedByName(rows) ==
    LET ids == {c.id : c \in rows}
        row(id) == CHOOSE c \in rows : c.id = id
    IN  {s \in [1 .. Cardinality(ids) -> ids] :
            /\ \A id \in ids : \E i \in DOMAIN s : s[i] = id
            /\ \A i, j \in DOMAIN s :
                   i < j => ~NameLess(row(s[j]).full_name, row(s[i]).full_name)}

\* Texts typed into the search field of the customer screen.
SearchInputs == {<<" ">>, <<"7">>, <<"a">>, <<"z">>}

\* MainWindow.load_customers: with a search term the statement handed to
\* execute starts at FROM (its SELECT clause is missing), SQLite raises
\* OperationalError for the syntax error and the table is left as it was.
load_customers(search_term, ok) ==
    /\ running
    /\ \/ /\ search_term # <<>>
          /\ lastOp' = Op("load_customers", "db_error", search_term, None)
       \/ /\ search_term = <<>>
          /\ ~ok
          /\ lastOp' = Op("load_customers", "db_error", search_term, None)
       \/ /\ search_term = <<>>
          /\ ok
          /\ \E rows \in OrderedByName(customers) :
                lastOp' = Op("load_customers", "listed", search_term, rows)
    /\ UNCHANGED <<dbvars, running, issued, nCalls, winvars, filevars>>
    /\ UNCHANGED concvars

\* MainWindow.search_customers: the search field, stripped.
search_customers(text, ok) == load_customers(Strip(text), ok)

SearchCustomersStep ==
    \E text \in SearchInputs, ok \in BOOLEAN : search_customers(text, ok)

NextSearch ==
    \/ SaveCustomerStep
    \/ CustomerImportStep
    \/ SearchCustomersStep

\* Runs of the customer screen.
SpecSearch == Init /\ [][NextSearch]_vars

\* Letters in lower case, as LIKE compares them.
LowerChar(ch) == CASE ch = "A" -> "a" [] ch = "C" -> "c" [] OTHER -> ch
LowerText(text) == [i \in DOMAIN text |-> LowerChar(text[i])]

\* term occurs in text, letter case ignored.
ContainsText(text, term) ==
    \E i \in 1 .. Len(text) - Len(term) + 1 :
        SubSeq(LowerText(text), i, i + Len(term) - 1) = LowerText(term)

MatchesTerm(c, term) ==
    \/ ContainsText(c.full_name, term)
    \/ ContainsText(c.mobile_number, term)
    \/ ContainsText(c.naap_number, term)

\* C18: a search with a term returns exactly the customers whose name,
\* mobile number or naap number contains the term, letter case ignored; a
\* search without a term returns every customer, ordered by name.
C18_SearchMatchesSubstring ==
    [][(/\ lastOp'.op = "load_customers"
        /\ lastOp'.arg # <<>> \/ lastOp'.result = "listed")
          => /\ lastOp'.result = "listed"
             /\ Len(lastOp'.ret) = Cardinality({lastOp'.ret[i] : i \in DOMAIN lastOp'.ret})
             /\ {lastOp'.ret[i] : i \in DOMAIN lastOp'.ret} =
                   {c.id : c \in {d \in customers :
                                     lastOp'.arg = <<>> \/ MatchesTerm(d, lastOp'.arg)}}
             /\ lastOp'.ret \in OrderedByName(customers) \/ lastOp'.arg # <<>>]_vars

\* ------------------------------------------------------- the admin account

\* UPDATE users SET username = ? WHERE username = ?.
RenameUser(rows, old, new) ==
    {IF u.username = old THEN [u EXCEPT !.username = new] ELSE u : u \in rows}

\* UPDATE users SET password_hash = ? WHERE username = ?.
RehashUser(rows, username, hash) ==
    {IF u.username = username THEN [u EXCEPT !.password_hash = hash] ELSE u :
        u \in rows}

\* MainWindow.handle_save_username: the admin panel's "Save Username".
handle_save_username(text, dbOk) ==
    LET new_username == Strip(text)
    IN  /\ running
        /\ \/ /\ new_username = <<>>
              /\ lastOp' = Op("handle_save_username", "empty", text, None)
              /\ UNCHANGED <<users, logged_in_user>>
           \/ /\ new_username # <<>>
              /\ new_username = logged_in_user
              /\ lastOp' = Op("handle_save_username", "same", text, None)
              /\ UNCHANGED <<users, logged_in_user>>
           \/ /\ new_username # <<>>
              /\ new_username # logged_in_user
              /\ ~dbOk
              /\ lastOp' = Op("handle_save_username", "db_error", text, None)
              /\ UNCHANGED <<users, logged_in_user>>
           \/ /\ new_username # <<>>
              /\ new_username # logged_in_user
              /\ dbOk
              /\ UsernameTaken(users, new_username)
              /\ lastOp' = Op("handle_save_username", "taken", text, None)
              /\ UNCHANGED <<users, logged_in_user>>
           \/ /\ new_username # <<>>
              /\ new_username # logged_in_user
              /\ dbOk
              /\ ~UsernameTaken(users, new_username)
              /\ users' = RenameUser(users, logged_in_user, new_username)
              /\ logged_in_user' = new_username
              /\ lastOp' = Op("handle_save_username", "updated", text, None)
        /\ UNCHANGED <<dbvars, running, issued, nCalls, orders, exportFile,
                       exported, backups, editing_measurement_id, orders_table>>
        /\ UNCHANGED concvars

SaveUsernameStep ==
    \E text \in UsernameInputs, dbOk \in BOOLEAN :
        handle_save_username(text, dbOk)

\* The least length of a new password.
MinPasswordLen == 6

\* A length check that lets every password pass.
TooShort_never(new_password) == FALSE

\* len(new_password) < 6
TooShort(new_password) == Len(new_password) < MinPasswordLen

\* MainWindow.handle_save_password: the settings screen's "Save Password".
handle_save_password(current_password, new_password, confirm_password, dbOk) ==
    LET arg == <<current_password, new_password, confirm_password>>
        row == {u \in users : u.username = logged_in_user}
        valid == /\ current_password # <<>> /\ new_password # <<>>
                 /\ confirm_password # <<>>
                 /\ new_password = confirm_password
                 /\ ~TooShort(new_password)
    IN  /\ running
        /\ \/ /\ current_password = <<>> \/ new_password = <<>>
                    \/ confirm_password = <<>>
              /\ lastOp' = Op("handle_save_password", "required", arg, None)
              /\ UNCHANGED users
           \/ /\ current_password # <<>> /\ new_password # <<>>
              /\ confirm_password # <<>>
              /\ new_password # confirm_password
              /\ lastOp' = Op("handle_save_password", "mismatch", arg, None)
              /\ UNCHANGED users
           \/ /\ current_password # <<>> /\ new_password # <<>>
              /\ new_password = confirm_password
              /\ TooShort(new_password)
              /\ lastOp' = Op("handle_save_password", "too_short", arg, None)
              /\ UNCHANGED users
           \/ /\ valid
              /\ ~dbOk
              /\ lastOp' = Op("handle_save_password", "db_error", arg, None)
              /\ UNCHANGED users
           \/ /\ valid
              /\ dbOk
              /\ row = {}
              /\ lastOp' = Op("handle_save_password", "user_not_found", arg, None)
              /\ UNCHANGED users
           \/ /\ valid
              /\ dbOk
              /\ \E u \in row : u.password_hash # Sha256Hex(current_password)
              /\ lastOp' = Op("handle_save_password", "incorrect", arg, None)
              /\ UNCHANGED users
           \/ /\ valid
              /\ dbOk
              /\ \E u \in row : u.password_hash = Sha256Hex(current_password)
              /\ users' = RehashUser(users, logged_in_user,
                                     Sha256Hex(new_password))
              /\ lastOp' = Op("handle_save_password", "updated", arg, None)
        /\ UNCHANGED <<dbvars, running, issued, nCalls, orders, exportFile,
                       exported, backups, winvars>>
        /\ UNCHANGED concvars

SavePasswordStep ==
    \E current_password \in PasswordInputs \cup {<<>>},
       new_password \in PasswordInputs, confirm_password \in PasswordInputs,
       dbOk \in BOOLEAN :
        handle_save_password(current_password, new_password,
                             confirm_password, dbOk)

\* The window is closed: app.exec_() returns and the process ends.
Quit ==
    /\ running
    /\ running' = FALSE
    /\ lastOp' = Op("quit", "ok", NoArg, None)
    /\ UNCHANGED <<dbvars, issued, nCalls, winvars, filevars>>
    /\ UNCHANGED concvars

\* Before a launch: either no database file exists yet (every table of the
\* file init_db is about to create is empty, no user row), or the file is
\* the one with customers and orders that a previous launch seeded.
InitUsers ==
    /\ \E fresh \in BOOLEAN :
          /\ customers = IF fresh THEN {} ELSE {c \in CustPool : c.id \in {1, 2}}
          /\ custSeq = IF fresh THEN 0 ELSE 2
          /\ orders = IF fresh THEN {} ELSE OrdersAdmitted
          /\ users = IF fresh THEN {} ELSE create_default_admin({})
    /\ counters = NoCounters
    /\ measurements = {}
    /\ running = FALSE
    /\ lastOp = Op("none", "none", NoArg, None)
    /\ issued = [y \in Years |-> <<>>]
    /\ nCalls = [y \in Years |-> 0]
    /\ InitConc
    /\ editing_measurement_id = 0
    /\ orders_table = <<>>
    /\ logged_in_user = None
    /\ exportFile = NoFile
    /\ exported = NoExport
    /\ backups = NoBackups

NextUsers ==
    \/ Start
    \/ Quit
    \/ SaveUsernameStep
    \/ SavePasswordStep
    \/ CustomerImportStep

\* Launches of the program, with the account changed in between.
SpecUsers == InitUsers /\ [][NextUsers]_vars

\* C19: init_db on a users table without rows leaves exactly the default
\* admin; on a table with rows it adds and changes no user; and it changes
\* no customer, measurement, order or counter.
C19_InitDbIdempotent ==
    [][lastOp'.op = "init_db"
          => /\ users = {} =>
                   users' = {UserRow(1, AdminName, Sha256Hex(DefaultPassword))}
             /\ users # {} => users' = users
             /\ UNCHANGED <<dbvars, orders>>]_vars

\* C19 witness: the program was launched again after the admin had changed
\* both the username and the password, on a database with customers and
\* orders.
C19_Witness ==
    /\ lastOp.op = "init_db"
    /\ users = {UserRow(1, BossName, Sha256Hex(<<"s", "e", "c", "r", "e", "t">>))}
    /\ logged_in_user = BossName
    /\ customers # {}
    /\ orders # {}

\* ------------------------------------------------------------- export_data

\* SELECT * that returns the first row only.
SelectAll_first(rows) ==
    IF rows = {} THEN <<>>
    ELSE <<CHOOSE r \in rows : \A q \in rows : r.id <= q.id>>

\* SELECT * FROM a table: every row, in rowid order.
SelectAll(rows) ==
    LET ids == {r.id : r \in rows}
        row(id) == CHOOSE r \in rows : r.id = id
        order == CHOOSE s \in [1 .. Cardinality(ids) -> ids] :
                     \A i, j \in DOMAIN s : i < j => s[i] < s[j]
    IN  [i \in DOMAIN order |-> row(order[i])]

\* json.dump of a TEXT column: null for None, else the text in quotes.
JsonText(text) == IF text = None THEN <<"null">> ELSE <<"\"">> \o text \o <<"\"">>

\* json.load of such a value.
TextOfJson(json) ==
    IF json = <<"null">> THEN None ELSE SubSeq(json, 2, Len(json) - 1)

\* A customers row as the object json.dump writes; integers are written as
\* they are.
JsonCustomer(c) ==
    [id |-> c.id, naap_number |-> JsonText(c.naap_number),
     full_name |-> JsonText(c.full_name),
     mobile_number |-> JsonText(c.mobile_number),
     address |-> JsonText(c.address),
     date_of_entry |-> JsonText(c.date_of_entry)]

JsonMeasurement(m) ==
    [id |-> m.id, customer_id |-> m.customer_id, dress_type |-> m.dress_type,
     urgent_delivery |-> m.urgent_delivery,
     expected_delivery_date |-> JsonText(m.expected_delivery_date),
     date_created |-> JsonText(m.date_created)]

\* The dict json.load returns for an object of the "customers" list.
CustomerOfJson(j) ==
    CustomerRow(j.id, TextOfJson(j.naap_number), TextOfJson(j.full_name),
                TextOfJson(j.mobile_number), TextOfJson(j.address),
                TextOfJson(j.date_of_entry))

MeasurementOfJson(j) ==
    [id |-> j.id, customer_id |-> j.customer_id, dress_type |-> j.dress_type,
     urgent_delivery |-> j.urgent_delivery,
     expected_delivery_date |-> TextOfJson(j.expected_delivery_date),
     date_created |-> TextOfJson(j.date_created)]

\* json.load of the file: the document import_data works on.
JsonLoad(file) ==
    [customers |-> [i \in DOMAIN file.customers |->
                       CustomerOfJson(file.customers[i])],
     measurements |-> [i \in DOMAIN file.measurements |->
                          MeasurementOfJson(file.measurements[i])]]

\* MainWindow.export_data; ok: a file name was chosen and nothing raised.
export_data(ok) ==
    LET custs == SelectAll(customers)
        meass == SelectAll(measurements)
    IN  /\ running
        /\ \/ /\ ok
              /\ exportFile' =
                    [written |-> TRUE,
                     customers |-> [i \in DOMAIN custs |-> JsonCustomer(custs[i])],
                     measurements |->
                        [i \in DOMAIN meass |-> JsonMeasurement(meass[i])]]
              /\ exported' = [customers |-> customers,
                              measurements |-> measurements]
              /\ lastOp' = Op("export_data", "complete", NoArg, None)
           \/ /\ ~ok
              /\ lastOp' = Op("export_data", "failed", NoArg, None)
              /\ UNCHANGED <<exportFile, exported>>
        /\ UNCHANGED <<dbvars, running, issued, nCalls, orders, users, winvars>>
        /\ UNCHANGED <<concvars, backups>>

ExportStep == \E ok \in BOOLEAN : export_data(ok)

\* import_data given the file export_data wrote.
ImportExportedStep ==
    /\ exportFile.written
    /\ \E replace \in BOOLEAN : import_data(JsonLoad(exportFile), replace)

NextExport ==
    \/ SmallImportStep
    \/ ExportStep
    \/ ImportExportedStep
    \/ ClearDatabaseStep

\* Runs of the export and import buttons.
SpecExport == Init /\ [][NextExport]_vars

\* C20: a Replace import of the exported file into a database without
\* customers and measurements completes and leaves exactly the customer and
\* measurement rows that were exported, equal in every field.
C20_ExportImportRoundTrip ==
    [][(/\ exportFile.written
        /\ customers = {} /\ measurements = {}
        /\ import_data(JsonLoad(exportFile), TRUE))
          => /\ lastOp'.result = "complete"
             /\ customers' = exported.customers
             /\ measurements' = exported.measurements]_vars

\* C20 witness: a Replace import brought back two exported customers (no
\* other document holds two) and their measurements.
C20_Witness ==
    /\ lastOp.op = "import_data" /\ lastOp.arg = "replace"
    /\ lastOp.result = "complete"
    /\ exportFile.written
    /\ Cardinality(customers) = 2
    /\ customers = exported.customers
    /\ measurements # {}
    /\ measurements = exported.measurements

\* ---------------------------------------------------- claims about imports

MobilesOf(rows) == {c.mobile_number : c \in rows}

MeasurementIds == {m.id : m \in measurements}

\* C21: a Merge import keeps every customer row it found, drops the incoming
\* customers whose mobile number exists already, and completes with as many
\* more customers as there are distinct incoming mobile numbers that were
\* not present, also when such a customer carries the id or the naap number
\* of an existing row.
C21_MergeKeepsAndCounts ==
    [][\A doc \in Docs :
          import_data(doc, FALSE)
             => /\ lastOp'.result = "complete"
                /\ customers \subseteq customers'
                /\ Cardinality(customers') =
                      Cardinality(customers) +
                      Cardinality(MobilesOf(Range(doc.customers))
                                     \ MobilesOf(customers))]_vars

\* C22: a Merge import leaves every measurement row it found as it was, and
\* inserts each incoming measurement whose id is new under that id.
C22_MergeMeasurements ==
    [][\A doc \in Docs :
          import_data(doc, FALSE)
             => /\ measurements \subseteq measurements'
                /\ \A m \in Range(doc.measurements) :
                       m.id \notin MeasurementIds => m \in measurements']_vars

\* C29: for every year the counter's last_number is at least the largest
\* number among the naap numbers of the year's customers.
C29_CounterCoversCustomers ==
    \A y \in Years :
        CounterOf(y) >=
            SetMax({StrToNat(NaapSuffix(c.naap_number)) :
                       c \in {d \in customers :
                                 SubSeq(d.naap_number, 1, 4) = YearText(y)}})


\* ------------------------------------------------------ reading an import file
\* What json.load returns for the chosen file: an object, given by its members
\* as <<key, value>> pairs, or a value of another kind (an array).
JsonObject(members) == [object |-> TRUE, members |-> members]

JsonArray == [object |-> FALSE, members |-> {}]

FileCustomers == {<<CustomerRow(1, FormatNaap(2025, 1), <<"A">>, <<"7">>, <<>>, Today)>>}

FileMeasurements == {<<>>, <<MeasurementRow(1, 1, 0, None)>>}

JsonFiles ==
    {JsonArray}
      \cup {JsonObject({})}
      \cup {JsonObject({<<"customers", cs>>}) : cs \in FileCustomers}
      \cup {JsonObject({<<"measurements", ms>>}) : ms \in FileMeasurements}
      \cup {JsonObject({<<"customers", cs>>, <<"measurements", ms>>}) :
               cs \in FileCustomers, ms \in FileMeasurements}

\* dict.get(key, default)
DictGet(members, key, default) ==
    IF \E kv \in members : kv[1] = key
    THEN (CHOOSE kv \in members : kv[1] = key)[2]
    ELSE default

\* The first try block of import_data: data.get raises on a value that is not
\* an object, and supplies an empty list for a key the object lacks.
read_import_file(file) ==
    IF file.object
    THEN [ok |-> TRUE,
          doc |-> [customers |-> DictGet(file.members, "customers", <<>>),
                   measurements |-> DictGet(file.members, "measurements", <<>>)]]
    ELSE [ok |-> FALSE, doc |-> [customers |-> <<>>, measurements |-> <<>>]]

\* MainWindow.import_data from the chosen file on.
import_data_file(file, replace) ==
    LET read == read_import_file(file)
    IN  IF read.ok
        THEN import_data(read.doc, replace)
        ELSE /\ running
             /\ lastOp' = Op("import_data", "unreadable", NoArg, None)
             /\ UNCHANGED <<dbvars, running, issued, nCalls>>
             /\ UNCHANGED <<concvars, winvars, filevars>>

ImportFileStep ==
    \E file \in JsonFiles, replace \in BOOLEAN : import_data_file(file, replace)

NextImport ==
    \/ SaveCustomerStep
    \/ ImportFileStep

\* Runs of the customer form and the import button on arbitrary JSON files.
SpecImport == Init /\ [][NextImport]_vars

\* The expected top-level shape: an object with both arrays.
HasShape(file) ==
    file.object /\ {kv[1] : kv \in file.members} = {"customers", "measurements"}

\* C23: an import of a document without the top-level shape (no customers
\* array, no measurements array, or neither) ends in a format error and leaves
\* the database as it was, in Merge and in Replace mode.
C23_ShapelessRejected ==
    [][\A file \in JsonFiles, replace \in BOOLEAN :
          (~HasShape(file) /\ import_data_file(file, replace))
             => /\ lastOp'.result = "unreadable"
                /\ UNCHANGED dbvars]_vars


\* ------------------------------------------------------- imports that fail
\* A customer object without its naap_number member.
KeylessCustomer ==
    [id |-> 2, full_name |-> <<"C">>, mobile_number |-> <<"9">>,
     address |-> <<>>, date_of_entry |-> Today]

FailPool ==
    { CustomerRow(1, FormatNaap(2025, 1), <<"A">>, <<"7">>, <<>>, Today),
      CustomerRow(3, FormatNaap(2026, 1), <<"C">>, <<"8">>, <<>>, Today),
      KeylessCustomer }

\* Documents whose rows can make an INSERT raise in either mode.
FailDocs ==
    [customers : SeqsUpTo2(FailPool),
     measurements : {<<>>, <<MeasurementRow(1, 1, 0, None)>>}]

FailImportStep ==
    \E doc \in FailDocs, replace \in BOOLEAN : import_data(doc, replace)

NextRollback ==
    \/ SaveCustomerStep
    \/ FailImportStep

\* Runs of the customer form and of imports of damaged or conflicting files.
SpecRollback == Init /\ [][NextRollback]_vars

\* C28: an import that fails part-way, in Merge or Replace mode, leaves the
\* customers and measurements tables as they were before it started.
C28_FailedImportRollsBack ==
    [][(lastOp'.op = "import_data" /\ lastOp'.result = "failed")
          => UNCHANGED <<customers, measurements>>]_vars

\* A Replace import failed on a database that held rows.
C28_Witness ==
    /\ lastOp.op = "import_data"
    /\ lastOp.result = "failed"
    /\ lastOp.arg = "replace"
    /\ customers # {}


\* ------------------------------------------------------- backup and restore
\* The most files the backups directory holds: a copy that would add another
\* fails, as on a full disk.
MaxBackups == 2

\* The bytes of the database file: every table.
DbImage ==
    [counters |-> counters, customers |-> customers, custSeq |-> custSeq,
     measurements |-> measurements, orders |-> orders, users |-> users]

CanStore == DbImage \in backups.files \/ Cardinality(backups.files) < MaxBackups

\* The try block of backup_database: the directory is made when it is
\* missing (dirOk), then the database file is copied into it (copyOk).  An
\* exception of either call is shown in a message box and swallowed.
BackupOutcome(dirOk, copyOk) ==
    LET made == backups.exists \/ dirOk
        ok == made /\ copyOk
    IN  [ok |-> ok,
         dir |-> [exists |-> made,
                  files |-> IF ok THEN backups.files \cup {DbImage}
                            ELSE backups.files]]

\* MainWindow.backup_database
backup_database(dirOk, copyOk) ==
    LET b == BackupOutcome(dirOk, copyOk)
    IN  /\ running
        /\ copyOk => CanStore
        /\ backups' = b.dir
        /\ lastOp' = Op("backup_database",
                        IF b.ok THEN "complete" ELSE "failed", NoArg, None)
        /\ UNCHANGED <<dbvars, running, issued, nCalls, concvars, winvars>>
        /\ UNCHANGED <<orders, users, exportFile, exported>>

BackupStep == \E dirOk \in BOOLEAN, copyOk \in BOOLEAN : backup_database(dirOk, copyOk)

\* MainWindow.restore_database: the implicit backup, whose outcome is not
\* looked at; the directory test; the file dialog (chosen: a file was picked);
\* the confirmation; the copy over the database file (restoreOk).  lastOp.arg
\* records how the implicit backup ended.
restore_database(dirOk, copyOk, chosen, file, confirm, restoreOk) ==
    LET b == BackupOutcome(dirOk, copyOk)
        result == IF ~b.dir.exists THEN "no_backups"
                  ELSE IF ~chosen THEN "cancelled"
                  ELSE IF ~confirm THEN "declined"
                  ELSE IF ~restoreOk THEN "failed"
                  ELSE "restored"
    IN  /\ running
        /\ copyOk => CanStore
        /\ chosen => file \in b.dir.files
        /\ backups' = b.dir
        /\ IF result = "restored"
           THEN /\ counters' = file.counters
                /\ customers' = file.customers
                /\ custSeq' = file.custSeq
                /\ measurements' = file.measurements
                /\ orders' = file.orders
                /\ users' = file.users
           ELSE UNCHANGED <<dbvars, orders, users>>
        /\ lastOp' = Op("restore_database", result,
                        IF b.ok THEN "backed_up" ELSE "backup_failed", None)
        /\ UNCHANGED <<running, issued, nCalls, concvars, winvars>>
        /\ UNCHANGED <<exportFile, exported>>

RestoreStep ==
    \E dirOk \in BOOLEAN, copyOk \in BOOLEAN, chosen \in BOOLEAN,
       file \in backups.files \cup {DbImage}, confirm \in BOOLEAN,
       restoreOk \in BOOLEAN :
        restore_database(dirOk, copyOk, chosen, file, confirm, restoreOk)

NextRestore ==
    \/ SaveCustomerStep
    \/ BackupStep
    \/ RestoreStep

\* Runs of the customer form and of the backup and restore buttons.
SpecRestore == Init /\ [][NextRestore]_vars

\* C24: whenever restore overwrites the database file, its implicit backup
\* succeeded before, so the backups directory holds a copy of the state the
\* database had when restore was called.
C24_RestoreBacksUpFirst ==
    [][(lastOp'.op = "restore_database" /\ lastOp'.result = "restored")
          => /\ lastOp'.arg = "backed_up"
             /\ DbImage \in backups'.files]_vars


\* ------------------------------------------------------------ the login gate
\* A comparison that accepts every password of a known user.
Verifies_known_user(rows, username, password) ==
    \E u \in rows : u.username = username

\* LoginDialog.handle_login's test: the row of the username is fetched and
\* the digest of the entered password is compared with its password_hash.
Verifies(rows, username, password) ==
    \E u \in rows : /\ u.username = username
                    /\ u.password_hash = Sha256Hex(password)

LoginNames == UsernameInputs \cup {<<" ">> \o AdminName}

\* main.py run as a program, up to one press of the Login button: init_db,
\* then LoginDialog.handle_login on the entered texts.  When the dialog is
\* accepted a MainWindow opens for the entered user; otherwise the dialog
\* stays, and closing it ends the process.
handle_login(username, password, dbOk) ==
    LET rows == create_default_admin(users)
        entered_username == Strip(username)
        result == IF entered_username = <<>> \/ password = <<>> THEN "required"
                  ELSE IF ~dbOk THEN "error"
                  ELSE IF Verifies(rows, entered_username, password)
                       THEN "accepted"
                  ELSE "invalid"
    IN  /\ ~running
        /\ users' = rows
        /\ lastOp' = Op("handle_login", result, <<username, password>>, None)
        /\ IF result = "accepted"
           THEN /\ running' = TRUE
                /\ logged_in_user' = entered_username
                /\ editing_measurement_id' = 0
                /\ orders_table' = <<>>
           ELSE UNCHANGED <<running, winvars>>
        /\ UNCHANGED <<dbvars, issued, nCalls, orders, exportFile, exported, backups>>
        /\ UNCHANGED concvars

LoginStep ==
    \E username \in LoginNames, password \in PasswordInputs \cup {<<>>},
       dbOk \in BOOLEAN :
        handle_login(username, password, dbOk)

\* MainWindow.__init__'s default for logged_in_user.
GuestName == <<"G", "u", "e", "s", "t">>

\* launcher.py run as a program: init_db, then MainWindow() without a
\* LoginDialog.
launcher ==
    /\ ~running
    /\ users' = create_default_admin(users)
    /\ running' = TRUE
    /\ logged_in_user' = GuestName
    /\ editing_measurement_id' = 0
    /\ orders_table' = <<>>
    /\ lastOp' = Op("launcher", "shown", NoArg, None)
    /\ UNCHANGED <<dbvars, issued, nCalls, orders, exportFile, exported, backups>>
    /\ UNCHANGED concvars

\* ChangePasswordDialog.save_new_password, for a dialog made for username.
save_new_password(username, current_password, new_password, confirm_password, dbOk) ==
    LET arg == <<current_password, new_password, confirm_password, username>>
        row == {u \in users : u.username = username}
        result ==
            IF current_password = <<>> \/ new_password = <<>>
                  \/ confirm_password = <<>> THEN "required"
            ELSE IF new_password # confirm_password THEN "mismatch"
            ELSE IF TooShort(new_password) THEN "too_short"
            ELSE IF ~dbOk THEN "db_error"
            ELSE IF row = {} THEN "user_not_found"
            ELSE IF \E u \in row : u.password_hash # Sha256Hex(current_password)
                 THEN "incorrect"
            ELSE "updated"
    IN  /\ running
        /\ users' = IF result = "updated"
                    THEN RehashUser(users, username, Sha256Hex(new_password))
                    ELSE users
        /\ lastOp' = Op("save_new_password", result, arg, None)
        /\ UNCHANGED <<dbvars, running, issued, nCalls, orders, exportFile,
                       exported, backups, winvars>>
        /\ UNCHANGED concvars

SaveNewPasswordStep ==
    \E username \in {AdminName, BossName},
       current_password \in PasswordInputs \cup {<<>>},
       new_password \in PasswordInputs, confirm_password \in PasswordInputs,
       dbOk \in BOOLEAN :
        save_new_password(username, current_password, new_password,
                          confirm_password, dbOk)

NextLogin ==
    \/ LoginStep
    \/ launcher
    \/ Quit
    \/ SaveUsernameStep
    \/ SavePasswordStep
    \/ SaveNewPasswordStep
    \/ ClearDatabaseStep

\* Launches through either entry point, with the account changed in between.
SpecLogin == InitUsers /\ [][NextLogin]_vars


\* ------------------------------------------------- claims about the accounts
\* The table holds a row of this username whose password_hash is the digest
\* of this password.
CredentialsMatch(rows, username, password) ==
    \E u \in rows : /\ u.username = username
                    /\ u.password_hash = Sha256Hex(password)

PasswordChangeOps == {"handle_save_password", "save_new_password"}

\* The user whose password the step changes.
ChangedUser ==
    IF lastOp'.op = "save_new_password" THEN lastOp'.arg[4] ELSE logged_in_user

UsernamesDistinct(rows) ==
    \A u \in rows, v \in rows : u.username = v.username => u = v

\* C27: a rename to a username that a row already has fails and changes no
\* row, with the conflict message unless the name is the session's own or
\* the query raised; and the usernames of the users table are pairwise
\* distinct before and after every step.
C27_RenameConflict ==
    [][/\ (/\ lastOp'.op = "handle_save_username"
           /\ \E u \in users : u.username = Strip(lastOp'.arg))
             => /\ lastOp'.result \in {"taken", "same", "db_error"}
                /\ (Strip(lastOp'.arg) # logged_in_user
                       /\ lastOp'.result # "db_error")
                      => lastOp'.result = "taken"
                /\ users' = users
       /\ UsernamesDistinct(users)
       /\ UsernamesDistinct(users')]_vars

\* A rename to the name of an existing row was refused as taken.
C27_Witness ==
    /\ lastOp.op = "handle_save_username"
    /\ lastOp.result = "taken"
    /\ \E u \in users : u.username = Strip(lastOp.arg)

\* C30: a main window opens only through a login that credential
\* verification accepted, and its session then belongs to the verified user.
C30_LoginGate ==
    [][(~running /\ running')
          => /\ lastOp'.op = "handle_login"
             /\ lastOp'.result = "accepted"
             /\ logged_in_user' = Strip(lastOp'.arg[1])
             /\ CredentialsMatch(users', logged_in_user', lastOp'.arg[2])]_vars

====
